---- MODULE Spec2Model ----
(***************************************************************************)
(* The YouTube summarizer of src/app.py and src/app2.py: the sentence-aware *)
(* chunker, the two-pass summary reducer, the pointwise formatter, the      *)
(* optional LLM refinement and the Summarize button handler that wires     *)
(* them together over st.session_state.                                    *)
(*                                                                         *)
(* A Python str is modelled by its run-length encoding: a sequence of runs *)
(* [c |-> character, n |-> repetitions >= 1] in which adjacent runs hold   *)
(* different characters.  len, +, strip, join and the regular-expression   *)
(* split are computed on runs exactly as Python computes them on           *)
(* characters, so the 2000-character chunk budget and the 3000-character   *)
(* threshold of recursive_summarize keep their values.                     *)
(***************************************************************************)
EXTENDS Integers, Sequences, FiniteSets, TLC

VARIABLES
    variant,            \* "app" (src/app.py) or "app2" (src/app2.py)
    cred,               \* where OPENAI_API_KEY is to be found, if anywhere
    pc,                 \* position of the script inside the button handler
    last_summary,       \* st.session_state.last_summary
    last_audio,         \* st.session_state.last_audio: "None" or a path
    file_exists,        \* audio.webm is on disk
    audio_file,         \* handler local
    transcript_text,    \* handler local
    chunks,             \* recursive_summarize: chunks of the running pass
    summaries,          \* recursive_summarize: summaries of the running pass
    summary_text,       \* handler local: what recursive_summarize returned
    formatted_summary,  \* handler local
    refined_summary,    \* handler local
    llm_error,          \* handler local
    final_summary,      \* handler local (as chosen at app.py:207, app2.py:194)
    shown,              \* what this script run has put on the page, in order
    outcome,            \* how the last press ended
    hist,               \* history of the running request (calls made, passes run)
    fn                  \* harness of the pure functions (specification FnSpec)

vars == <<variant, cred, pc, last_summary, last_audio, file_exists, audio_file,
          transcript_text, chunks, summaries, summary_text, formatted_summary,
          refined_summary, llm_error, final_summary, shown, outcome, hist, fn>>

appvars == <<variant, cred, pc, last_summary, last_audio, file_exists, audio_file,
             transcript_text, chunks, summaries, summary_text, formatted_summary,
             refined_summary, llm_error, final_summary, shown, outcome, hist>>

----------------------------------------------------------------------------
(* Bounds of the pure-function harness.                                     *)

\* longest input text, in runs
MaxRuns == 4

\* longest run, in characters
MaxCount == 2

\* largest max_chunk handed to chunk_text by the harness
MaxBudget == 5

----------------------------------------------------------------------------
(* Python str.                                                              *)

NL == "\n"

Bullet == "bullet"      \* the character U+2022

\* str.strip() with no argument strips whitespace
Whitespace == {" ", NL, "\t"}

\* the character class [.!?] of the sentence-boundary pattern
Punct == {".", "!", "?"}

Run(c, n) == [c |-> c, n |-> n]

Empty == <<>>

Sp == <<Run(" ", 1)>>

\* a str value: runs of at least one character, adjacent runs differ
IsStr(s) ==
    /\ \A i \in 1..Len(s) : s[i].n >= 1
    /\ \A i \in 1..(Len(s) - 1) : s[i].c # s[i + 1].c

RECURSIVE StrLen(_)
\* len(s)
StrLen(s) == IF s = <<>> THEN 0 ELSE Head(s).n + StrLen(Tail(s))

\* s + t
Cat(s, t) ==
    IF s = <<>> THEN t
    ELSE IF t = <<>> THEN s
    ELSE IF s[Len(s)].c = t[1].c
         THEN SubSeq(s, 1, Len(s) - 1)
              \o <<Run(t[1].c, s[Len(s)].n + t[1].n)>>
              \o Tail(t)
         ELSE s \o t

RECURSIVE lstrip(_)
lstrip(s) == IF s # <<>> /\ Head(s).c \in Whitespace THEN lstrip(Tail(s)) ELSE s

RECURSIVE rstrip(_)
rstrip(s) ==
    IF s # <<>> /\ s[Len(s)].c \in Whitespace
    THEN rstrip(SubSeq(s, 1, Len(s) - 1))
    ELSE s

\* s.strip()
strip(s) == rstrip(lstrip(s))

RECURSIVE join(_, _)
\* sep.join(parts)
join(sep, parts) ==
    IF parts = <<>> THEN Empty
    ELSE IF Len(parts) = 1 THEN parts[1]
    ELSE Cat(Cat(parts[1], sep), join(sep, Tail(parts)))

RECURSIVE SplitFrom(_, _, _, _)
\* the scan of re.split: run i of text is a separator when it is a run of
\* spaces right after a punctuation character (the whole run matches " +")
SplitFrom(text, i, cur, out) ==
    IF i > Len(text) THEN Append(out, cur)
    ELSE IF text[i].c = " " /\ i > 1 /\ text[i - 1].c \in Punct
         THEN SplitFrom(text, i + 1, <<>>, Append(out, cur))
         ELSE SplitFrom(text, i + 1, Append(cur, text[i]), out)

\* re.split(r'(?<=[.!?]) +', text)
re_split(text) == SplitFrom(text, 1, <<>>, <<>>)

----------------------------------------------------------------------------
(* chunk_text                                                               *)

\* ChunkStep whose else branch starts the new buffer without emitting the old
ChunkStep_loses_buffer(st, s, max_chunk) ==
    IF StrLen(st.cur) + StrLen(s) + 1 <= max_chunk
    THEN [chunks |-> st.chunks, cur |-> Cat(Cat(st.cur, s), Sp)]
    ELSE [chunks |-> st.chunks, cur |-> Cat(s, Sp)]

\* ChunkStep with the buffer's length left out of the fit test
ChunkStep_ignores_cur(st, s, max_chunk) ==
    IF StrLen(s) + 1 <= max_chunk
    THEN [chunks |-> st.chunks, cur |-> Cat(Cat(st.cur, s), Sp)]
    ELSE [chunks |-> Append(st.chunks, strip(st.cur)), cur |-> Cat(s, Sp)]

\* one iteration of the for loop over the sentences
ChunkStep(st, s, max_chunk) ==
    IF StrLen(st.cur) + StrLen(s) + 1 <= max_chunk
    THEN [chunks |-> st.chunks, cur |-> Cat(Cat(st.cur, s), Sp)]
    ELSE [chunks |-> Append(st.chunks, strip(st.cur)), cur |-> Cat(s, Sp)]

RECURSIVE ChunkLoop(_, _, _)
ChunkLoop(sentences, st, max_chunk) ==
    IF sentences = <<>> THEN st
    ELSE ChunkLoop(Tail(sentences), ChunkStep(st, Head(sentences), max_chunk), max_chunk)

\* chunk_text without the emission of the final buffer
chunk_text_drops_last(text, max_chunk) ==
    ChunkLoop(re_split(text), [chunks |-> <<>>, cur |-> Empty], max_chunk).chunks

chunk_text(text, max_chunk) ==
    LET st == ChunkLoop(re_split(text), [chunks |-> <<>>, cur |-> Empty], max_chunk)
    IN  IF strip(st.cur) # Empty THEN Append(st.chunks, strip(st.cur)) ELSE st.chunks

----------------------------------------------------------------------------
(* format_summary_pointwise                                                 *)

RECURSIVE KeptPoints(_)
\* [point.strip() for point in points if point.strip()]
KeptPoints(points) ==
    IF points = <<>> THEN <<>>
    ELSE IF strip(Head(points)) # Empty
         THEN <<strip(Head(points))>> \o KeptPoints(Tail(points))
         ELSE KeptPoints(Tail(points))

\* the bullets the formatter renders for a summary text, one per kept point
FormatPoints(text) ==
    LET kept == KeptPoints(re_split(text))
    IN  [i \in 1..Len(kept) |-> Cat(<<Run(Bullet, 1), Run(" ", 1)>>, kept[i])]

\* format_summary_pointwise joining the bullets with a space
format_summary_pointwise_inline(text) == join(Sp, FormatPoints(text))

format_summary_pointwise(text) == join(<<Run(NL, 1)>>, FormatPoints(text))

----------------------------------------------------------------------------
(* The harness of the pure functions: a text and a budget are drawn, then   *)
(* chunk_text, or format_summary_pointwise once and again, is applied.      *)

Alphabet == {"a", ".", " ", NL}

Texts ==
    {s \in UNION {[1..k -> [c : Alphabet, n : 1..MaxCount]] : k \in 0..MaxRuns} : IsStr(s)}

FnOff == [pc |-> "off", text |-> Empty, max_chunk |-> 0, chunks |-> <<>>,
          once |-> Empty, twice |-> Empty, n1 |-> 0, n2 |-> 0]

CallChunkText ==
    /\ fn.pc = "input"
    /\ \E b \in 1..MaxBudget :
        fn' = [fn EXCEPT !.pc = "chunked", !.max_chunk = b,
                         !.chunks = chunk_text(fn.text, b)]
    /\ UNCHANGED appvars

CallFormat ==
    /\ fn.pc = "input"
    /\ fn' = [fn EXCEPT !.pc = "formatted",
                        !.once = format_summary_pointwise(fn.text),
                        !.n1 = Len(FormatPoints(fn.text))]
    /\ UNCHANGED appvars

CallFormatAgain ==
    /\ fn.pc = "formatted"
    /\ fn' = [fn EXCEPT !.pc = "reformatted",
                        !.twice = format_summary_pointwise(fn.once),
                        !.n2 = Len(FormatPoints(fn.once))]
    /\ UNCHANGED appvars

FnNext == CallChunkText \/ CallFormat \/ CallFormatAgain

----------------------------------------------------------------------------
(* recursive_summarize: its two numbers.                                    *)

\* max_chunk of both chunk_text calls
ChunkBudget == 2000

\* a first-pass result longer than this is summarized once more
Threshold == 3000

----------------------------------------------------------------------------
(* The collaborators' answers the model draws from.                         *)

Sentence(c, n) == <<Run(c, n - 1), Run(".", 1)>>

\* what transcribe_audio may return: nothing, blanks only, one short
\* sentence, three sentences of 1500 characters, one word of 2001 characters
Transcripts ==
    { Empty,
      <<Run(" ", 3)>>,
      Sentence("a", 40),
      join(Sp, <<Sentence("a", 1500), Sentence("a", 1500), Sentence("a", 1500)>>),
      <<Run("a", 2001)>> }

\* what one summarizer call may return: nothing, blanks only, a short
\* sentence, a sentence of 1600 characters (no compression)
SummaryOutputs ==
    { Empty,
      <<Run(" ", 3001)>>,
      Sentence("b", 60),
      Sentence("b", 1600) }

\* what the chat completion may do: answer with a content, raise, or answer
\* with a response that lacks choices[0].message.content
ApiOutcomes ==
    { [kind |-> "ok", content |-> <<Run("A", 1), Run(" ", 1), Run("c", 5), Run(".", 1), Run(NL, 1)>>],
      [kind |-> "ok", content |-> Empty],
      [kind |-> "raise", content |-> Empty],
      [kind |-> "malformed", content |-> Empty] }

NoApi == [kind |-> "none", content |-> Empty]

Urls == {"", "https://youtu.be/v"}

Credentials == {"env", "secrets", "no_entry", "no_file"}

HasKey == cred \in {"env", "secrets"}

----------------------------------------------------------------------------
(* refine_with_llm                                                          *)

NoneErr == [is_none |-> TRUE, msg |-> "", text |-> Empty]

RefineFailed == [is_none |-> FALSE, msg |-> "LLM refine failed", text |-> Empty]

\* Python truth value of llm_error
Truthy(err) == ~err.is_none /\ (err.msg # "" \/ err.text # Empty)

\* the lookup of OPENAI_API_KEY: os.getenv first, then st.secrets.  With no
\* secrets file at all the access to st.secrets raises; app2.py catches that,
\* app.py's st.secrets.get does not.
LookupKey(v, c) ==
    IF c = "env" THEN [raised |-> FALSE, key |-> TRUE]
    ELSE IF c = "secrets" THEN [raised |-> FALSE, key |-> TRUE]
    ELSE IF c = "no_entry" THEN [raised |-> FALSE, key |-> FALSE]
    ELSE IF v = "app2" THEN [raised |-> FALSE, key |-> FALSE]
    ELSE [raised |-> TRUE, key |-> FALSE]

\* refine_with_llm with nothing caught around the chat completion
refine_with_llm_uncaught(v, c, api, bulleted_summary) ==
    LET k == LookupKey(v, c)
    IN  IF k.raised THEN [kind |-> "raise", refined |-> Empty, err |-> NoneErr]
        ELSE IF ~k.key
             THEN IF v = "app2"
                  THEN [kind |-> "str", refined |-> bulleted_summary, err |-> NoneErr]
                  ELSE [kind |-> "pair", refined |-> bulleted_summary, err |-> NoneErr]
        ELSE IF api.kind = "ok"
             THEN [kind |-> "pair", refined |-> strip(api.content), err |-> NoneErr]
        ELSE [kind |-> "raise", refined |-> Empty, err |-> NoneErr]

\* What refine_with_llm hands back: kind "pair" is a 2-tuple (refined, err),
\* kind "str" is the bare string app2.py:127 returns, kind "raise" an
\* exception that leaves the function.
refine_with_llm(v, c, api, bulleted_summary) ==
    LET k == LookupKey(v, c)
    IN  IF k.raised THEN [kind |-> "raise", refined |-> Empty, err |-> NoneErr]
        ELSE IF ~k.key
             THEN IF v = "app2"
                  THEN [kind |-> "str", refined |-> bulleted_summary, err |-> NoneErr]
                  ELSE [kind |-> "pair", refined |-> bulleted_summary, err |-> NoneErr]
        ELSE IF api.kind = "ok"
             THEN [kind |-> "pair", refined |-> strip(api.content), err |-> NoneErr]
        ELSE [kind |-> "pair", refined |-> bulleted_summary, err |-> RefineFailed]

\* s[0] and s[1] of a string of at least one, two characters
CharAt0(s) == <<Run(s[1].c, 1)>>

CharAt1(s) == <<Run((IF s[1].n >= 2 THEN s[1].c ELSE s[2].c), 1)>>

\* s[1:]
Rest(s) == IF s[1].n = 1 THEN Tail(s) ELSE <<Run(s[1].c, s[1].n - 1)>> \o Tail(s)

\* refined_summary, llm_error = <what refine_with_llm returned>: a 2-tuple
\* unpacks, a str unpacks into its characters when it has exactly two of
\* them and raises ValueError otherwise
Unpack(ret) ==
    IF ret.kind = "pair" THEN [ok |-> TRUE, refined |-> ret.refined, err |-> ret.err]
    ELSE IF ret.kind = "str" /\ StrLen(ret.refined) = 2
         THEN [ok |-> TRUE, refined |-> CharAt0(ret.refined),
               err |-> [is_none |-> FALSE, msg |-> "", text |-> CharAt1(ret.refined)]]
    ELSE [ok |-> FALSE, refined |-> Empty, err |-> NoneErr]

\* str.lower() on the characters of the model
Lower(c) == IF c = "A" THEN "a" ELSE IF c = "B" THEN "b" ELSE IF c = "I" THEN "i" ELSE c

RECURSIVE FromChars(_)
FromChars(cs) == IF cs = <<>> THEN Empty ELSE Cat(<<Run(Head(cs), 1)>>, FromChars(Tail(cs)))

InThisVideo ==
    FromChars(<<"I", "n", " ", "t", "h", "i", "s", " ", "v", "i", "d", "e", "o", ",", " ">>)

\* the text of the summary on the page: app.py puts "In this video, " before
\* a non-empty summary and lowers its first character, app2.py shows it as is
Displayed(v, final) ==
    IF v = "app" /\ final # Empty
    THEN Cat(Cat(InThisVideo, <<Run(Lower(final[1].c), 1)>>), Rest(final))
    ELSE final

\* app2.py:220, at the end of every script run
Persisted(v, ls) ==
    IF v = "app2" /\ ls # Empty THEN <<[kind |-> "persisted", text |-> ls]>> ELSE <<>>

----------------------------------------------------------------------------
(* The Summarize button handler, one action per external call and per loop  *)
(* exit, over both variants.                                                *)

NoHist ==
    [passes |-> 0,                \* chunk-summarize-concatenate passes begun
     calls |-> <<0, 0>>,          \* summarizer calls made in pass 1, pass 2
     nchunks |-> <<0, 0>>,        \* chunks of pass 1, pass 2
     outs_nonempty |-> TRUE,      \* every summarizer answer so far was non-empty
     outs_nonblank |-> TRUE,      \* ... and held a non-whitespace character
     empty_chunk |-> FALSE,       \* an empty chunk was handed to the summarizer
     raised_at |-> <<0, 0>>,      \* pass and chunk of the summarizer call that raised
     api |-> "none",              \* what the chat completion did, if called
     refine_called |-> FALSE,     \* refine_with_llm was called
     cleared_stale |-> FALSE,     \* the press found last_audio set and reset it
     removal |-> "not_tried"]     \* the last os.remove of the request: removed, failed

ErrorMsg == [kind |-> "error", text |-> Empty]

\* os.remove(path) inside try/except: the file is gone when the removal
\* worked; a failure (no such file, file in use) is swallowed
AfterRemove(exists, worked) == exists /\ ~worked

RemovalResult(exists, worked) == IF exists /\ worked THEN "removed" ELSE "failed"

\* the except branch of the handler: st.error, then the end of the script
Fail(stage) ==
    /\ pc' = "idle"
    /\ outcome' = stage
    /\ shown' = Append(shown, ErrorMsg) \o Persisted(variant, last_summary)

ResetLocals ==
    /\ audio_file' = "None"
    /\ transcript_text' = Empty
    /\ chunks' = <<>>
    /\ summaries' = <<>>
    /\ summary_text' = Empty
    /\ formatted_summary' = Empty
    /\ refined_summary' = Empty
    /\ llm_error' = NoneErr
    /\ final_summary' = Empty

\* Press without the removal and reset of the previous audio file
Press_keeps_audio ==
    /\ pc = "idle"
    /\ ResetLocals
    /\ \E u \in Urls :
        IF u = ""
        THEN /\ pc' = "idle"
             /\ outcome' = "no_url"
             /\ shown' = <<[kind |-> "warning_url", text |-> Empty]>>
                             \o Persisted(variant, last_summary)
             /\ hist' = NoHist
             /\ UNCHANGED <<last_summary, last_audio, file_exists>>
        ELSE /\ last_summary' = Empty
             /\ hist' = NoHist
             /\ UNCHANGED <<last_audio, file_exists>>
             /\ shown' = <<>>
             /\ outcome' = "running"
             /\ pc' = "download"
    /\ UNCHANGED <<variant, cred, fn>>

\* The button is pressed with the URL field holding u: the script runs from
\* the top with fresh locals; an empty URL gets the warning, any other one
\* starts the request (app.py:181-192, app2.py:166-178).
Press ==
    /\ pc = "idle"
    /\ ResetLocals
    /\ \E u \in Urls, worked \in BOOLEAN :
        IF u = ""
        THEN /\ worked             \* no removal is tried on this path
             /\ pc' = "idle"
             /\ outcome' = "no_url"
             /\ shown' = <<[kind |-> "warning_url", text |-> Empty]>>
                             \o Persisted(variant, last_summary)
             /\ hist' = NoHist
             /\ UNCHANGED <<last_summary, last_audio, file_exists>>
        ELSE /\ last_summary' = Empty
             /\ IF last_audio # "None"
                THEN /\ file_exists' = AfterRemove(file_exists, worked)
                     /\ last_audio' = "None"
                     /\ hist' = [NoHist EXCEPT !.cleared_stale = TRUE,
                                                !.removal = RemovalResult(file_exists, worked)]
                ELSE /\ worked
                     /\ hist' = NoHist
                     /\ UNCHANGED <<last_audio, file_exists>>
             /\ shown' = <<>>
             /\ outcome' = "running"
             /\ pc' = "download"
    /\ UNCHANGED <<variant, cred, fn>>

\* download_audio(url), then last_audio = audio_file; or it raises
Download ==
    /\ pc = "download"
    /\ \/ /\ audio_file' = "audio.webm"
          /\ last_audio' = "audio.webm"
          /\ file_exists' = TRUE
          /\ pc' = "transcribe"
          /\ UNCHANGED <<shown, outcome>>
       \/ /\ Fail("download_failed")
          /\ UNCHANGED <<audio_file, last_audio, file_exists>>
    /\ UNCHANGED <<variant, cred, last_summary, transcript_text, chunks, summaries,
                   summary_text, formatted_summary, refined_summary, llm_error,
                   final_summary, hist, fn>>

\* transcribe_audio(audio_file), then the entry of recursive_summarize up to
\* its first loop; or the transcription raises
Transcribe ==
    /\ pc = "transcribe"
    /\ \/ \E t \in Transcripts :
            /\ transcript_text' = t
            /\ chunks' = chunk_text(t, ChunkBudget)
            /\ summaries' = <<>>
            /\ hist' = [hist EXCEPT !.passes = 1,
                                    !.nchunks[1] = Len(chunk_text(t, ChunkBudget))]
            /\ pc' = "pass1"
            /\ UNCHANGED <<shown, outcome>>
       \/ /\ Fail("transcribe_failed")
          /\ UNCHANGED <<transcript_text, chunks, summaries, hist>>
    /\ UNCHANGED <<variant, cred, last_summary, last_audio, file_exists, audio_file,
                   summary_text, formatted_summary, refined_summary, llm_error,
                   final_summary, fn>>

\* SummarizerCall with a raising call skipped: the loop goes on to the next chunk
SummarizerCall_skips_failure(p) ==
    /\ Len(summaries) < Len(chunks)
    /\ \/ \E out \in SummaryOutputs :
            /\ summaries' = Append(summaries, out)
            /\ hist' = [hist EXCEPT !.calls[p] = @ + 1,
                                    !.outs_nonempty = @ /\ out # Empty,
                                    !.outs_nonblank = @ /\ strip(out) # Empty,
                                    !.empty_chunk = @ \/ chunks[Len(summaries) + 1] = Empty]
       \/ /\ summaries' = Append(summaries, Empty)
          /\ hist' = [hist EXCEPT !.calls[p] = @ + 1,
                                  !.raised_at = <<p, Len(summaries) + 1>>,
                                  !.empty_chunk = @ \/ chunks[Len(summaries) + 1] = Empty]
    /\ UNCHANGED <<pc, shown, outcome>>
    /\ UNCHANGED <<variant, cred, last_summary, last_audio, file_exists, audio_file,
                   transcript_text, chunks, summary_text, formatted_summary,
                   refined_summary, llm_error, final_summary, fn>>

\* One iteration of a summarizing loop of pass p: the summarizer is called on
\* the next chunk and its answer appended, or the call raises and the
\* exception leaves recursive_summarize for the handler's except branch.
SummarizerCall(p) ==
    /\ Len(summaries) < Len(chunks)
    /\ \/ \E out \in SummaryOutputs :
            /\ summaries' = Append(summaries, out)
            /\ hist' = [hist EXCEPT !.calls[p] = @ + 1,
                                    !.outs_nonempty = @ /\ out # Empty,
                                    !.outs_nonblank = @ /\ strip(out) # Empty,
                                    !.empty_chunk = @ \/ chunks[Len(summaries) + 1] = Empty]
            /\ UNCHANGED <<pc, shown, outcome>>
       \/ /\ hist' = [hist EXCEPT !.calls[p] = @ + 1,
                                  !.raised_at = <<p, Len(summaries) + 1>>,
                                  !.empty_chunk = @ \/ chunks[Len(summaries) + 1] = Empty]
          /\ Fail("summarize_failed")
          /\ UNCHANGED summaries
    /\ UNCHANGED <<variant, cred, last_summary, last_audio, file_exists, audio_file,
                   transcript_text, chunks, summary_text, formatted_summary,
                   refined_summary, llm_error, final_summary, fn>>

Summarize1 == pc = "pass1" /\ SummarizerCall(1)

Summarize2 == pc = "pass2" /\ SummarizerCall(2)

\* return combined_summary, then format_summary_pointwise in the handler
Return(combined) ==
    /\ summary_text' = combined
    /\ formatted_summary' = format_summary_pointwise(combined)
    /\ pc' = "refine"

\* the end of the first loop: the join and the length test
JoinPass1 ==
    /\ pc = "pass1"
    /\ Len(summaries) = Len(chunks)
    /\ LET combined == join(Sp, summaries)
       IN  IF StrLen(combined) > Threshold
           THEN /\ chunks' = chunk_text(combined, ChunkBudget)
                /\ summaries' = <<>>
                /\ hist' = [hist EXCEPT !.passes = 2,
                                        !.nchunks[2] = Len(chunk_text(combined, ChunkBudget))]
                /\ pc' = "pass2"
                /\ UNCHANGED <<summary_text, formatted_summary>>
           ELSE /\ Return(combined)
                /\ UNCHANGED <<chunks, summaries, hist>>
    /\ UNCHANGED <<variant, cred, last_summary, last_audio, file_exists, audio_file,
                   transcript_text, refined_summary, llm_error, final_summary,
                   shown, outcome, fn>>

\* JoinPass2 as a recursion: a result over the threshold is summarized again
JoinPass2_recurses ==
    /\ pc = "pass2"
    /\ Len(summaries) = Len(chunks)
    /\ LET combined == join(Sp, summaries)
       IN  IF StrLen(combined) > Threshold
           THEN /\ chunks' = chunk_text(combined, ChunkBudget)
                /\ summaries' = <<>>
                /\ hist' = [hist EXCEPT !.passes = @ + 1,
                                        !.calls[2] = 0,
                                        !.nchunks[2] = Len(chunk_text(combined, ChunkBudget))]
                /\ pc' = "pass2"
                /\ UNCHANGED <<summary_text, formatted_summary>>
           ELSE /\ Return(combined)
                /\ UNCHANGED <<chunks, summaries, hist>>
    /\ UNCHANGED <<variant, cred, last_summary, last_audio, file_exists, audio_file,
                   transcript_text, refined_summary, llm_error, final_summary,
                   shown, outcome, fn>>

\* the end of the second loop: the join, returned whatever its length
JoinPass2 ==
    /\ pc = "pass2"
    /\ Len(summaries) = Len(chunks)
    /\ Return(join(Sp, summaries))
    /\ UNCHANGED <<variant, cred, last_summary, last_audio, file_exists, audio_file,
                   transcript_text, chunks, summaries, refined_summary, llm_error,
                   final_summary, shown, outcome, hist, fn>>

\* refine_with_llm and the rest of the handler: the unpacking of its result,
\* the choice of the final summary, the display, the warning, the removal
\* of the audio file (app.py:203-232, app2.py:190-212)
Refine ==
    /\ pc = "refine"
    /\ \E api \in (IF HasKey THEN ApiOutcomes ELSE {NoApi}), worked \in BOOLEAN :
        LET ret == refine_with_llm(variant, cred, api, formatted_summary)
            up == Unpack(ret)
            final == IF up.err.is_none THEN up.refined ELSE formatted_summary
            saved == IF variant = "app2" THEN final ELSE last_summary
        IN  /\ IF ~up.ok
               THEN /\ worked
                    /\ hist' = [hist EXCEPT !.api = api.kind, !.refine_called = TRUE]
                    /\ Fail("refine_failed")
                    /\ UNCHANGED <<last_summary, last_audio, file_exists,
                                   refined_summary, llm_error, final_summary>>
               ELSE /\ refined_summary' = up.refined
                    /\ llm_error' = up.err
                    /\ final_summary' = final
                    /\ last_summary' = saved
                    /\ shown' = shown
                          \o <<[kind |-> "summary", text |-> Displayed(variant, final)]>>
                          \o (IF Truthy(up.err)
                              THEN <<[kind |-> "warning_llm", text |-> up.err.text]>>
                              ELSE <<>>)
                          \o Persisted(variant, saved)
                    /\ IF last_audio # "None"
                       THEN /\ file_exists' = AfterRemove(file_exists, worked)
                            /\ last_audio' = "None"
                            /\ hist' = [hist EXCEPT
                                   !.api = api.kind, !.refine_called = TRUE,
                                   !.removal = RemovalResult(file_exists, worked)]
                       ELSE /\ worked
                            /\ hist' = [hist EXCEPT !.api = api.kind,
                                                    !.refine_called = TRUE]
                            /\ UNCHANGED <<last_audio, file_exists>>
                    /\ outcome' = "ok"
                    /\ pc' = "idle"
    /\ UNCHANGED <<variant, cred, audio_file, transcript_text, chunks, summaries,
                   summary_text, formatted_summary, fn>>

Init ==
    /\ variant \in {"app", "app2"}
    /\ cred \in Credentials
    /\ pc = "idle"
    /\ last_summary = Empty
    /\ last_audio = "None"
    /\ file_exists = FALSE
    /\ audio_file = "None"
    /\ transcript_text = Empty
    /\ chunks = <<>>
    /\ summaries = <<>>
    /\ summary_text = Empty
    /\ formatted_summary = Empty
    /\ refined_summary = Empty
    /\ llm_error = NoneErr
    /\ final_summary = Empty
    /\ shown = <<>>
    /\ outcome = "none"
    /\ hist = NoHist
    /\ fn = FnOff

Next ==
    \/ Press
    \/ Download
    \/ Transcribe
    \/ Summarize1
    \/ JoinPass1
    \/ Summarize2
    \/ JoinPass2
    \/ Refine

Spec == Init /\ [][Next]_vars

----------------------------------------------------------------------------
(* Properties of the handler, checked under Spec.                           *)

\* recursive_summarize has returned in the request at hand
Returned == pc = "refine" \/ (pc = "idle" /\ hist.refine_called)

\* C1: with no OPENAI_API_KEY anywhere the refine step is a no-op: the
\* request ends without the error message and its final summary is the
\* formatted summary, in both variants.
C1_NoKeyNoop ==
    (pc = "idle" /\ hist.refine_called /\ ~HasKey) =>
        /\ outcome = "ok"
        /\ final_summary = formatted_summary
        /\ \A i \in 1..Len(shown) : shown[i].kind # "error"

ReducerCounts ==
    /\ hist.passes <= 2
    /\ \A p \in 1..2 : hist.calls[p] <= hist.nchunks[p]
    /\ Returned =>
        \A p \in 1..2 :
            hist.calls[p] = (IF p <= hist.passes THEN hist.nchunks[p] ELSE 0)

\* a step taken inside the reducer leaves it, begins the next pass, or
\* leaves one chunk fewer to summarize in the running pass
ReducerProgress ==
    pc \in {"pass1", "pass2"} =>
        \/ pc' \notin {"pass1", "pass2"}
        \/ hist'.passes > hist.passes
        \/ /\ hist'.passes = hist.passes
           /\ Len(chunks') - Len(summaries') < Len(chunks) - Len(summaries)
           /\ Len(chunks') - Len(summaries') >= 0

\* C4: recursive_summarize terminates within two passes: every step of it
\* makes progress towards its return, it begins at most two passes, calls
\* the summarizer once per chunk of each pass it runs and no more, and
\* returns after the second pass whatever the length of the result.
C4_AtMostTwoPasses == []ReducerCounts /\ [][ReducerProgress]_vars

C4_Witness ==
    /\ Returned
    /\ hist.passes = 2
    /\ hist.calls[2] >= 2
    /\ StrLen(summary_text) > Threshold

\* C5: a summarizer call that raises ends the request: no later chunk is
\* summarized, no summary is produced, displayed or stored, and the page
\* shows the one error message.
C5_FailurePropagates ==
    hist.raised_at # <<0, 0>> =>
        /\ pc = "idle"
        /\ outcome = "summarize_failed"
        /\ shown = <<ErrorMsg>>
        /\ last_summary = Empty
        /\ summary_text = Empty
        /\ formatted_summary = Empty
        /\ final_summary = Empty
        /\ hist.calls[hist.raised_at[1]] = hist.raised_at[2]
        /\ (hist.raised_at[1] = 1 => hist.calls[2] = 0)
        /\ ~hist.refine_called

C5_Witness ==
    /\ hist.raised_at = <<1, 2>>
    /\ hist.nchunks[1] = 3
    /\ pc = "idle"

\* C9: with a credential configured, a chat completion that raises or
\* answers malformed is not fatal: the request completes, its final summary
\* is the formatted summary, which is what the page shows (after app.py's
\* fixed lead-in), followed by the warning of the refinement failure.
C9_RefineFailureNotFatal ==
    (pc = "idle" /\ hist.api \in {"raise", "malformed"}) =>
        /\ HasKey
        /\ outcome = "ok"
        /\ final_summary = formatted_summary
        /\ llm_error = RefineFailed
        /\ shown = <<[kind |-> "summary",
                      text |-> IF variant = "app" /\ formatted_summary # Empty
                               THEN Cat(InThisVideo, formatted_summary)
                               ELSE formatted_summary],
                     [kind |-> "warning_llm", text |-> Empty]>>
                   \o Persisted(variant, last_summary)
        /\ (variant = "app2" => last_summary = formatted_summary)

C9_Witness ==
    /\ pc = "idle"
    /\ hist.api = "malformed"
    /\ variant = "app"
    /\ outcome = "ok"
    /\ Len(FormatPoints(summary_text)) >= 2

----------------------------------------------------------------------------
(* The specification of the pure-function harness.                          *)

AppOff ==
    /\ variant = "app"
    /\ cred = "no_entry"
    /\ pc = "off"
    /\ last_summary = Empty
    /\ last_audio = "None"
    /\ file_exists = FALSE
    /\ audio_file = "None"
    /\ transcript_text = Empty
    /\ chunks = <<>>
    /\ summaries = <<>>
    /\ summary_text = Empty
    /\ formatted_summary = Empty
    /\ refined_summary = Empty
    /\ llm_error = NoneErr
    /\ final_summary = Empty
    /\ shown = <<>>
    /\ outcome = "none"
    /\ hist = NoHist

FnInit ==
    /\ AppOff
    /\ \E t \in Texts : fn = [FnOff EXCEPT !.pc = "input", !.text = t]

FnSpec == FnInit /\ [][FnNext]_vars

----------------------------------------------------------------------------
(* Properties of the pure functions, checked under FnSpec.                  *)

\* the sentences of a text, each trimmed of whitespace, the empty ones left out
TrimmedSentences(text) == KeptPoints(re_split(text))

RECURSIVE Flatten(_)
Flatten(seqs) == IF seqs = <<>> THEN <<>> ELSE Head(seqs) \o Flatten(Tail(seqs))

Rejoined == join(Sp, fn.chunks)

\* C2: every chunk chunk_text returns is a non-empty string (and the empty
\* text yields no chunk), also when the first sentence alone is over budget.
C2_ChunksNonEmpty ==
    fn.pc = "chunked" =>
        /\ \A k \in 1..Len(fn.chunks) : fn.chunks[k] # Empty
        /\ (fn.text = Empty => fn.chunks = <<>>)

\* C6 as stated: the chunks joined with single spaces and split again give
\* exactly the sentence sequence of the text.
C6_ExactSentences ==
    fn.pc = "chunked" => re_split(Rejoined) = re_split(fn.text)

\* C6 amended: the chunks joined with single spaces and split again give the
\* trimmed, non-empty sentences of the text, in order, none dropped or
\* duplicated; and the chunks' own sentences, chunk after chunk, are that same
\* sequence, so that no sentence lies across two chunks.
C6_SentencesPreserved ==
    fn.pc = "chunked" =>
        /\ TrimmedSentences(Rejoined) = TrimmedSentences(fn.text)
        /\ Flatten([k \in 1..Len(fn.chunks) |-> TrimmedSentences(fn.chunks[k])])
               = TrimmedSentences(fn.text)

C6_Witness ==
    /\ fn.pc = "chunked"
    /\ Len(fn.chunks) >= 2
    /\ \A k \in 1..Len(fn.chunks) : fn.chunks[k] # Empty
    /\ re_split(fn.text) # TrimmedSentences(fn.text)

\* C7: a chunk is at most max_chunk characters long unless it is one single
\* sentence that is itself longer than max_chunk; a chunk of two or more
\* sentences is never longer than max_chunk.
C7_SoftBound ==
    fn.pc = "chunked" =>
        \A k \in 1..Len(fn.chunks) :
            LET c == fn.chunks[k]
                sentences == re_split(fn.text)
            IN  /\ \/ StrLen(c) <= fn.max_chunk
                   \/ \E i \in 1..Len(sentences) :
                        /\ strip(sentences[i]) = c
                        /\ StrLen(sentences[i]) > fn.max_chunk
                /\ (Len(re_split(c)) >= 2 => StrLen(c) <= fn.max_chunk)

C7_Witness ==
    /\ fn.pc = "chunked"
    /\ Len(fn.chunks) >= 2
    /\ \E k \in 1..Len(fn.chunks) : StrLen(fn.chunks[k]) > fn.max_chunk
    /\ \E k \in 1..Len(fn.chunks) :
        fn.chunks[k] # Empty /\ StrLen(fn.chunks[k]) <= fn.max_chunk

\* a chunk of two sentences is produced and is within the budget
C7_TwoSentenceChunk ==
    /\ fn.pc = "chunked"
    /\ \E k \in 1..Len(fn.chunks) : Len(TrimmedSentences(fn.chunks[k])) >= 2

====
